---------------------------- MODULE Spec2Model ----------------------------
(***************************************************************************)
(* Canonical identifier codec of aqua-verifier-rs-types: Hash, TxHash,     *)
(* PublicKey and Signature, their text form (to_stackstr / Display) and    *)
(* their parsers (FromStr), together with the hex helper from_hex.         *)
(*                                                                         *)
(* A Rust &str is modelled as the sequence of its UTF-8 bytes.  An ASCII   *)
(* byte is the one-character string of its character; the two bytes of     *)
(* the non-ASCII character U+00E9 are the tokens "C3" and "A9".            *)
(* Byte arrays are sequences of integers in 0..255.                        *)
(*                                                                         *)
(* The digest sizes are scaled down (HashSize, TxHashSize, ScalarSize      *)
(* bytes instead of 64, 32 and 32) and the secp256k1 field is scaled to a  *)
(* small modulus, so that the strings stay short enough to enumerate.      *)
(***************************************************************************)
EXTENDS Integers, Sequences, FiniteSets, TLC

-----------------------------------------------------------------------------
(* Bounds of the model *)

\* bytes of a Hash (64 in the source)
HashSize == 1
\* bytes of a TxHash (32 in the source)
TxHashSize == 1
\* bytes of one secp256k1 scalar / coordinate (32 in the source)
ScalarSize == 1
\* modulus of the scaled curve field: coordinates are valid below it
FieldPrime == 13
\* how many defects are introduced into a formatted string before it is parsed
MaxEdits == 3
\* width of usize in bits (64 on the usual targets)
UsizeBits == 16

\* bytes of a serialized PublicKey: tag, x, y (65 in the source)
PublicKeySize == 1 + 2 * ScalarSize
\* bytes of an encoded Signature: r, s, recovery id (65 in the source)
SignatureSize == 2 * ScalarSize + 1
\* order of the scaled scalar group: r and s are valid below it
CurveOrder == 256 ^ ScalarSize - 15

Kinds == {"Hash", "TxHash", "PublicKey", "Signature"}

-----------------------------------------------------------------------------
(* Strings and bytes *)

AsciiUpper == <<"A","B","C","D","E","F","G","H","I","J","K","L","M",
                "N","O","P","Q","R","S","T","U","V","W","X","Y","Z">>
AsciiLower == <<"a","b","c","d","e","f","g","h","i","j","k","l","m",
                "n","o","p","q","r","s","t","u","v","w","x","y","z">>

\* the UTF-8 encoding of U+00E9
NonAscii == <<"C3", "A9">>

\* u8::is_ascii
IsAsciiByte(c) == c \notin {"C3", "A9"}

\* str::is_ascii
is_ascii(s) == \A i \in DOMAIN s : IsAsciiByte(s[i])

\* u8::to_ascii_lowercase / u8::to_ascii_uppercase
ToLowerByte(c) ==
    IF \E i \in 1..26 : AsciiUpper[i] = c
    THEN AsciiLower[CHOOSE i \in 1..26 : AsciiUpper[i] = c]
    ELSE c
ToUpperByte(c) ==
    IF \E i \in 1..26 : AsciiLower[i] = c
    THEN AsciiUpper[CHOOSE i \in 1..26 : AsciiLower[i] = c]
    ELSE c

\* str::to_ascii_lowercase
to_ascii_lowercase(s) == [i \in DOMAIN s |-> ToLowerByte(s[i])]

\* some byte of s is an ASCII uppercase letter
HasUpper(s) == \E i \in DOMAIN s : \E k \in 1..26 : s[i] = AsciiUpper[k]

Prefix0x == <<"0", "x">>

\* str::starts_with("0x")
starts_with_0x(s) == Len(s) >= 2 /\ SubSeq(s, 1, 2) = Prefix0x

\* str::strip_prefix("0x") of a string that starts with it
strip_0x(s) == SubSeq(s, 3, Len(s))

\* Results: Ok(v) and Err(e)
Ok(v) == [ok |-> TRUE, val |-> v, err |-> "none"]
Err(e) == [ok |-> FALSE, val |-> <<>>, err |-> e]
NoResult == [ok |-> FALSE, val |-> <<>>, err |-> "not run"]

-----------------------------------------------------------------------------
(* The hex crate, as called by the codec *)

HexDigits == <<"0","1","2","3","4","5","6","7","8","9","a","b","c","d","e","f">>

\* hex::val: the value of a hex digit of either case, -1 for any other byte
HexVal(c) ==
    IF \E d \in 1..16 : HexDigits[d] = c
    THEN (CHOOSE d \in 1..16 : HexDigits[d] = c) - 1
    ELSE IF \E d \in 11..16 : ToUpperByte(HexDigits[d]) = c
    THEN (CHOOSE d \in 11..16 : ToUpperByte(HexDigits[d]) = c) - 1
    ELSE -1

\* hex::encode_to_slice / hex::encode: two lowercase digits per byte
hex_encode(bytes) ==
    [i \in 1..(2 * Len(bytes)) |->
        IF i % 2 = 1 THEN HexDigits[(bytes[(i + 1) \div 2] \div 16) + 1]
                     ELSE HexDigits[(bytes[i \div 2] % 16) + 1]]

\* hex::decode_to_slice(s, &mut [u8; size])
hex_decode_to_slice(s, size) ==
    IF Len(s) % 2 # 0 THEN Err("OddLength")
    ELSE IF Len(s) \div 2 # size THEN Err("InvalidStringLength")
    ELSE IF \E i \in DOMAIN s : HexVal(s[i]) < 0 THEN Err("InvalidHexCharacter")
    ELSE Ok([i \in 1..size |-> HexVal(s[2 * i - 1]) * 16 + HexVal(s[2 * i])])

\* !n on a usize: the bitwise complement
UsizeNot(n) == (2 ^ UsizeBits - 1) - n

\* from_hex that takes lowercase digits only
from_hex_lowercase_only(size, s) ==
    IF ~is_ascii(s) \/ to_ascii_lowercase(s) # s
    THEN Err("None")
    ELSE LET d == hex_decode_to_slice(s, size)
         IN  IF d.ok THEN Ok(d.val) ELSE Err("None")

\* from_hex that decodes the leading SIZE * 2 bytes and ignores what follows
from_hex_leading(size, s) ==
    IF ~is_ascii(s) \/ Len(s) < size * 2
    THEN Err("None")
    ELSE LET d == hex_decode_to_slice(SubSeq(s, 1, size * 2), size)
         IN  IF d.ok THEN Ok(d.val) ELSE Err("None")

\* from_hex::<SIZE>(s): Some(bytes) is Ok(bytes), None is Err("None")
from_hex(size, s) ==
    IF UsizeNot(Len(s)) = size * 2 \/ ~is_ascii(s)
    THEN Err("None")
    ELSE LET d == hex_decode_to_slice(s, size)
         IN  IF d.ok THEN Ok(d.val) ELSE Err("None")

-----------------------------------------------------------------------------
(* Hash: a HashSize-byte digest, written as lowercase hex without prefix *)

\* Hash::to_stackstr and Display for Hash
Hash_to_stackstr(h) == hex_encode(h)

\* Hash::from_str that takes a leading 0x away before decoding
Hash_from_str_optional_prefix(s) ==
    LET h == from_hex(HashSize, IF starts_with_0x(s) THEN strip_0x(s) ELSE s)
    IN  IF h.ok THEN Ok(h.val) ELSE Err("()")

\* <Hash as FromStr>::from_str, Err = ()
Hash_from_str(s) ==
    LET h == from_hex(HashSize, s)
    IN  IF h.ok THEN Ok(h.val) ELSE Err("()")

-----------------------------------------------------------------------------
(* TxHash: a TxHashSize-byte value, written as 0x and lowercase hex *)

\* TxHash::to_stackstr and Display for TxHash
TxHash_to_stackstr(t) == Prefix0x \o hex_encode(t)

\* <TxHash as FromStr>::from_str, Err = String
TxHash_from_str(s) ==
    LET prefixed == IF starts_with_0x(s) THEN s ELSE Prefix0x \o s
    IN  IF ~starts_with_0x(prefixed) THEN Err("HASH HAS NO '0x' PREFIX")
        ELSE LET rest == strip_0x(prefixed)
             IN  IF Len(rest) # 2 * TxHashSize THEN Err("LENGTH NOT EQUAL TO 64")
                 ELSE LET d == hex_decode_to_slice(rest, TxHashSize)
                      IN  IF d.ok THEN Ok(d.val) ELSE Err("UNABLE TO DECODE")

-----------------------------------------------------------------------------
(* libsecp256k1 values, as used by PublicKey and Signature *)

\* the big-endian bytes of a scalar or coordinate (Scalar::b32, Field::b32)
ToBytesBE(v) == [i \in 1..ScalarSize |-> (v \div (256 ^ (ScalarSize - i))) % 256]

\* the number a big-endian byte string denotes
RECURSIVE FromBytesBE(_)
FromBytesBE(b) ==
    IF Len(b) = 0 THEN 0
    ELSE 256 * FromBytesBE(SubSeq(b, 1, Len(b) - 1)) + b[Len(b)]

\* Affine::is_valid_var: the point <<x, y>> satisfies y^2 = x^3 + 7
OnCurve(x, y) == (y * y) % FieldPrime = (x * x * x + 7) % FieldPrime

\* libsecp256k1::PublicKey::serialize: tag 0x04, then x and y
PublicKey_serialize(p) == <<4>> \o ToBytesBE(p[1]) \o ToBytesBE(p[2])

\* libsecp256k1::PublicKey::parse through TryFrom<[u8; 65]> for PublicKey:
\* the full tag 0x04 and the hybrid tags 0x06 / 0x07 are read, the
\* coordinates must not overflow the field and must lie on the curve
PublicKey_try_from(bytes) ==
    LET tag == bytes[1]
        px == FromBytesBE(SubSeq(bytes, 2, 1 + ScalarSize))
        py == FromBytesBE(SubSeq(bytes, 2 + ScalarSize, 1 + 2 * ScalarSize))
    IN  IF tag \notin {4, 6, 7} THEN Err("InvalidPublicKey")
        ELSE IF px >= FieldPrime \/ py >= FieldPrime THEN Err("InvalidPublicKey")
        ELSE IF tag \in {6, 7} /\ ((py % 2 = 1) # (tag = 7)) THEN Err("InvalidPublicKey")
        ELSE IF ~OnCurve(px, py) THEN Err("InvalidPublicKey")
        ELSE Ok(<<px, py>>)

\* parse_rpc that hands the wire byte on without taking 27 away
RecoveryId_parse_rpc_keep_offset(p) ==
    IF p >= 27 /\ p < 27 + 4 THEN Ok(p) ELSE Err("InvalidRecoveryId")

\* parse_rpc that reads a raw recovery id 0..3 as well
RecoveryId_parse_rpc_or_raw(p) ==
    IF p >= 27 /\ p < 27 + 4 THEN Ok(p - 27)
    ELSE IF p < 4 THEN Ok(p)
    ELSE Err("InvalidRecoveryId")

\* RecoveryId::parse_rpc
RecoveryId_parse_rpc(p) ==
    IF p >= 27 /\ p < 27 + 4 THEN Ok(p - 27) ELSE Err("InvalidRecoveryId")

\* Signature::parse_standard: r and s must not overflow the group order
Signature_parse_standard(b) ==
    LET r == FromBytesBE(SubSeq(b, 1, ScalarSize))
        s == FromBytesBE(SubSeq(b, ScalarSize + 1, 2 * ScalarSize))
    IN  IF r >= CurveOrder \/ s >= CurveOrder THEN Err("InvalidSignature")
        ELSE Ok(<<r, s>>)

-----------------------------------------------------------------------------
(* PublicKey: a curve point <<x, y>>, written as 0x and the hex of its    *)
(* uncompressed serialization                                             *)

\* PublicKey::to_stackstr and Display for PublicKey
PublicKey_to_stackstr(p) == Prefix0x \o hex_encode(PublicKey_serialize(p))

\* <PublicKey as FromStr>::from_str, Err = ()
PublicKey_from_str(s) ==
    IF to_ascii_lowercase(s) # s THEN Err("()")
    ELSE IF ~starts_with_0x(s) THEN Err("()")
    ELSE LET h == from_hex(PublicKeySize, strip_0x(s))
         IN  IF ~h.ok THEN Err("()")
             ELSE LET k == PublicKey_try_from(h.val)
                  IN  IF k.ok THEN k ELSE Err("()")

\* bytes of a Keccak-256 digest: [u8; 32]
KeccakSize == 32
\* first digest byte that belongs to the address: bytes32[12..]
AddressStart == 12

RECURSIVE WeightedSum(_, _)
WeightedSum(b, w) ==
    IF Len(b) = 0 THEN 0
    ELSE (WeightedSum(SubSeq(b, 1, Len(b) - 1), w) + (Len(b) + w) * (b[Len(b)] + 1)) % 256

\* crypt::Keccak256 (update, finalize): a stand-in for the digest, a function
\* of the input whose bytes differ from position to position
Keccak256(input) ==
    [i \in 1..KeccakSize |-> (WeightedSum(input, i) + 7 * i + Len(input)) % 256]

\* address derivation that hashes all 65 bytes, format byte included
Address_from_whole_key(p) ==
    LET bytes32 == Keccak256(PublicKey_serialize(p))
    IN  SubSeq(bytes32, AddressStart + 1, KeccakSize)

\* From<PublicKey> for ethaddr::Address
Address_from(p) ==
    LET bytes32 == Keccak256(Tail(PublicKey_serialize(p)))
    IN  SubSeq(bytes32, AddressStart + 1, KeccakSize)

-----------------------------------------------------------------------------
(* Signature: <<r, s, recovery_id>>, written as 0x and the hex of         *)
(* r, s and recovery_id + 27                                              *)

\* the encoding that writes the recovery id without the offset 27
Signature_into_bytes_no_offset(sig) ==
    ToBytesBE(sig[1]) \o ToBytesBE(sig[2]) \o <<sig[3]>>

\* From<Signature> for [u8; 65]
Signature_into_bytes(sig) ==
    ToBytesBE(sig[1]) \o ToBytesBE(sig[2]) \o <<(sig[3] + 27) % 256>>

\* TryFrom<[u8; 65]> for Signature
Signature_try_from(bytes) ==
    LET p == Signature_parse_standard(SubSeq(bytes, 1, 2 * ScalarSize))
        v == RecoveryId_parse_rpc(bytes[2 * ScalarSize + 1])
    IN  IF ~p.ok THEN p
        ELSE IF ~v.ok THEN v
        ELSE Ok(<<p.val[1], p.val[2], v.val>>)

\* Signature::to_stackstr
Signature_to_stackstr(sig) == Prefix0x \o hex_encode(Signature_into_bytes(sig))

\* ReadError::DecryptFail(e)
DecryptFail(e) ==
    IF e = "InvalidSignature" THEN "DecryptFail(InvalidSignature)"
    ELSE "DecryptFail(InvalidRecoveryId)"

\* Signature::from_str without the lower-case check
Signature_from_str_no_case_check(s) ==
    IF ~starts_with_0x(s) THEN Err("NoPrefix")
    ELSE LET h == from_hex(SignatureSize, strip_0x(s))
         IN  IF ~h.ok THEN Err("NotHex")
             ELSE LET g == Signature_try_from(h.val)
                  IN  IF g.ok THEN g ELSE Err(DecryptFail(g.err))

\* <Signature as FromStr>::from_str, Err = ReadError
Signature_from_str(s) ==
    IF to_ascii_lowercase(s) # s THEN Err("NotAsciiLower")
    ELSE IF ~starts_with_0x(s) THEN Err("NoPrefix")
    ELSE LET h == from_hex(SignatureSize, strip_0x(s))
         IN  IF ~h.ok THEN Err("NotHex")
             ELSE LET g == Signature_try_from(h.val)
                  IN  IF g.ok THEN g ELSE Err(DecryptFail(g.err))

-----------------------------------------------------------------------------
(* The four identifier kinds side by side *)

to_stackstr(k, v) ==
    CASE k = "Hash" -> Hash_to_stackstr(v)
      [] k = "TxHash" -> TxHash_to_stackstr(v)
      [] k = "PublicKey" -> PublicKey_to_stackstr(v)
      [] k = "Signature" -> Signature_to_stackstr(v)

from_str(k, s) ==
    CASE k = "Hash" -> Hash_from_str(s)
      [] k = "TxHash" -> TxHash_from_str(s)
      [] k = "PublicKey" -> PublicKey_from_str(s)
      [] k = "Signature" -> Signature_from_str(s)

-----------------------------------------------------------------------------
(* State: one identifier value is formatted, the text is damaged by up to *)
(* MaxEdits defects, parsed, and a successfully parsed value is formatted *)
(* again.                                                                  *)

VARIABLES
    kind,    \* the identifier kind under test
    x,       \* the value that was formatted
    s,       \* the string handed to from_str
    edits,   \* how many defects s carries relative to the formatted x
    res,     \* the result of from_str(s)
    out,     \* the text form of the parsed value
    phase    \* "value", "input", "parsed" or "shown"

vars == <<kind, x, s, edits, res, out, phase>>

\* Byte-level conversions of Signature and PublicKey
VARIABLES
    kval,    \* the Signature or PublicKey value, <<>> when bytes are given
    kbytes,  \* the encoded byte array
    kres,    \* the result of decoding kbytes
    kaddr,   \* the address derived from kval
    kaddr2,  \* the address derived a second time
    kphase   \* which conversion has run

keyVars == <<kval, kbytes, kres, kaddr, kaddr2, kphase>>

\* Replay of a Merkle inclusion proof
VARIABLES
    mleaf,     \* the claimed leaf hash
    mproof,    \* structured_merkle_proof: the MerkleNodes in order
    mroot,     \* the claimed merkle_root
    mchanged,  \* which single field was changed after the proof was built
    mverdict   \* outcome of the verification

merkleVars == <<mleaf, mproof, mroot, mchanged, mverdict>>

\* A Branch that grows
VARIABLES
    branch     \* Branch { metadata, hashes }, <<>> when there is none

branchVars == <<branch>>

\* A storage backend and its concurrent callers
VARIABLES
    revs,    \* what the backend holds: the stored revisions in store order
    calls,   \* the call each caller has in progress or has last finished
    acked,   \* hashes whose store has returned success
    stores   \* number of store calls made

storeVars == <<revs, calls, acked, stores>>

\* Base64 text and bytes
VARIABLES
    bvec,    \* the byte vector a Base64 is made from, <<>> when text is given
    btext,   \* the base64 text, or the JSON object of a FileContent
    bres,    \* the result of parsing btext
    bout,    \* the parsed value formatted again
    bphase   \* which conversion has run

b64Vars == <<bvec, btext, bres, bout, bphase>>

allVars == <<vars, keyVars, merkleVars, branchVars, storeVars, b64Vars>>

\* the parts a specification does not exercise stay as they are
CodecIdle ==
    /\ kind = "Hash" /\ x = <<>> /\ s = <<>> /\ edits = 0
    /\ res = NoResult /\ out = <<>> /\ phase = "idle"
KeyIdle ==
    /\ kval = <<>> /\ kbytes = <<>> /\ kres = NoResult
    /\ kaddr = <<>> /\ kaddr2 = <<>> /\ kphase = "idle"

MerkleIdle ==
    /\ mleaf = <<>> /\ mproof = <<>> /\ mroot = <<>>
    /\ mchanged = "idle" /\ mverdict = "none"

BranchIdle == branch = <<>>
StoreIdle == revs = <<>> /\ calls = <<>> /\ acked = {} /\ stores = 0

B64Idle ==
    /\ bvec = <<>> /\ btext = <<>> /\ bres = NoResult
    /\ bout = <<>> /\ bphase = "idle"

CodecOnly == UNCHANGED <<keyVars, merkleVars, branchVars, storeVars, b64Vars>>
KeyOnly == UNCHANGED <<vars, merkleVars, branchVars, storeVars, b64Vars>>
MerkleOnly == UNCHANGED <<vars, keyVars, branchVars, storeVars, b64Vars>>
BranchOnly == UNCHANGED <<vars, keyVars, merkleVars, storeVars, b64Vars>>
StoreOnly == UNCHANGED <<vars, keyVars, merkleVars, branchVars, b64Vars>>
B64Only == UNCHANGED <<vars, keyVars, merkleVars, branchVars, storeVars>>

\* bytes the values are built from
SeedBytes == {0, 29, 171}

HashValues == [1..HashSize -> SeedBytes]
TxHashValues == [1..TxHashSize -> SeedBytes]

\* every point of the scaled curve
PublicKeyValues ==
    {p \in (0..(FieldPrime - 1)) \X (0..(FieldPrime - 1)) : OnCurve(p[1], p[2])}

\* scalars below the group order, every recovery id
SignatureValues == {0, 171} \X {0, 171} \X (0..3)

Values(k) ==
    CASE k = "Hash" -> HashValues
      [] k = "TxHash" -> TxHashValues
      [] k = "PublicKey" -> PublicKeyValues
      [] k = "Signature" -> SignatureValues

Init ==
    /\ kind \in Kinds
    /\ x \in Values(kind)
    /\ s = <<>>
    /\ edits = 0
    /\ res = NoResult
    /\ out = <<>>
    /\ phase = "value"
    /\ KeyIdle /\ MerkleIdle /\ BranchIdle /\ StoreIdle /\ B64Idle

\* to_stackstr / Display of the value
Format(k) ==
    /\ phase = "value"
    /\ kind = k
    /\ s' = to_stackstr(k, x)
    /\ phase' = "input"
    /\ UNCHANGED <<kind, x, edits, res, out>>
    /\ CodecOnly

FormatHash == Format("Hash")
FormatTxHash == Format("TxHash")
FormatPublicKey == Format("PublicKey")
FormatSignature == Format("Signature")

\* positions at which a defect is introduced: the first four bytes (the
\* prefix and the first payload byte of a prefixed kind) and the last byte
EditPos(t) == {i \in 1..Len(t) : i <= 4 \/ i = Len(t)}

Edit(t) ==
    /\ phase = "input"
    /\ edits < MaxEdits
    /\ s' = t
    /\ edits' = edits + 1
    /\ UNCHANGED <<kind, x, res, out, phase>>
    /\ CodecOnly

\* a letter is written in upper case
EditUpper ==
    \E i \in EditPos(s) :
        /\ ToUpperByte(s[i]) # s[i]
        /\ Edit([s EXCEPT ![i] = ToUpperByte(s[i])])

\* a byte is replaced by a non-hex letter or by another hex digit
EditSubst ==
    \E i \in EditPos(s), c \in {"g", "f", "6"} :
        /\ IsAsciiByte(s[i])
        /\ s[i] # c
        /\ Edit([s EXCEPT ![i] = c])

\* an ASCII byte is replaced by a two-byte non-ASCII character
EditNonAscii ==
    \E i \in EditPos(s) :
        /\ IsAsciiByte(s[i])
        /\ Edit(SubSeq(s, 1, i - 1) \o NonAscii \o SubSeq(s, i + 1, Len(s)))

\* 0x is put in front
EditAddPrefix == Edit(Prefix0x \o s)

\* a leading 0x is taken away
EditStripPrefix == starts_with_0x(s) /\ Edit(strip_0x(s))

\* a hex digit is added at the end
EditAppend == Edit(Append(s, "0"))

\* the last byte is taken away
EditTruncate ==
    /\ Len(s) > 0
    /\ IsAsciiByte(s[Len(s)])
    /\ Edit(SubSeq(s, 1, Len(s) - 1))

\* from_str on the string
Parse(k) ==
    /\ phase = "input"
    /\ kind = k
    /\ res' = from_str(k, s)
    /\ phase' = "parsed"
    /\ UNCHANGED <<kind, x, s, edits, out>>
    /\ CodecOnly

ParseHash == Parse("Hash")
ParseTxHash == Parse("TxHash")
ParsePublicKey == Parse("PublicKey")
ParseSignature == Parse("Signature")

\* to_stackstr / Display of the value that from_str returned
Show(k) ==
    /\ phase = "parsed"
    /\ kind = k
    /\ res.ok
    /\ out' = to_stackstr(k, res.val)
    /\ phase' = "shown"
    /\ UNCHANGED <<kind, x, s, edits, res>>
    /\ CodecOnly

ShowHash == Show("Hash")
ShowTxHash == Show("TxHash")
ShowPublicKey == Show("PublicKey")
ShowSignature == Show("Signature")

Next ==
    \/ FormatHash \/ FormatTxHash \/ FormatPublicKey \/ FormatSignature
    \/ EditUpper \/ EditSubst \/ EditNonAscii
    \/ EditAddPrefix \/ EditStripPrefix \/ EditAppend \/ EditTruncate
    \/ ParseHash \/ ParseTxHash \/ ParsePublicKey \/ ParseSignature
    \/ ShowHash \/ ShowTxHash \/ ShowPublicKey \/ ShowSignature

Spec == Init /\ [][Next]_allVars

TypeOK ==
    /\ kind \in Kinds
    /\ edits \in 0..MaxEdits
    /\ phase \in {"value", "input", "parsed", "shown"}
    /\ res.ok \in BOOLEAN

-----------------------------------------------------------------------------
(* Byte-level conversions: a Signature is encoded into its byte array and *)
(* decoded again, any byte array is decoded, an address is derived from a *)
(* PublicKey.                                                             *)

\* scalars the byte arrays are built from: two below the group order and
\* one that overflows it
ArrayScalars == {0, 171, CurveOrder}

\* the 65-byte arrays handed to try_from: every trailing byte
SignatureArrays ==
    {ToBytesBE(r) \o ToBytesBE(q) \o <<b>> :
        r \in ArrayScalars, q \in ArrayScalars, b \in 0..255}

KeyInit ==
    /\ CodecIdle /\ MerkleIdle /\ BranchIdle /\ StoreIdle /\ B64Idle
    /\ kres = NoResult /\ kaddr = <<>> /\ kaddr2 = <<>>
    /\ \/ kphase = "signature" /\ kval \in SignatureValues /\ kbytes = <<>>
       \/ kphase = "bytes" /\ kval = <<>> /\ kbytes \in SignatureArrays
       \/ kphase = "key" /\ kval \in PublicKeyValues /\ kbytes = <<>>

\* <[u8; 65]>::from(signature)
SignatureIntoBytes ==
    /\ kphase = "signature"
    /\ kbytes' = Signature_into_bytes(kval)
    /\ kphase' = "encoded"
    /\ UNCHANGED <<kval, kres, kaddr, kaddr2>>
    /\ KeyOnly

\* Signature::try_from(bytes)
SignatureTryFrom ==
    /\ kphase \in {"encoded", "bytes"}
    /\ kres' = Signature_try_from(kbytes)
    /\ kphase' = "decoded"
    /\ UNCHANGED <<kval, kbytes, kaddr, kaddr2>>
    /\ KeyOnly

\* Signature::from_str on 0x and the hex digits of the bytes
SignatureFromHexOfBytes ==
    /\ kphase \in {"encoded", "bytes"}
    /\ kres' = Signature_from_str(Prefix0x \o hex_encode(kbytes))
    /\ kphase' = "parsed"
    /\ UNCHANGED <<kval, kbytes, kaddr, kaddr2>>
    /\ KeyOnly

\* ethaddr::Address::from(public_key)
DeriveAddress ==
    /\ kphase = "key"
    /\ kaddr' = Address_from(kval)
    /\ kphase' = "address"
    /\ UNCHANGED <<kval, kbytes, kres, kaddr2>>
    /\ KeyOnly

\* the same derivation once more
DeriveAddressAgain ==
    /\ kphase = "address"
    /\ kaddr2' = Address_from(kval)
    /\ kphase' = "address2"
    /\ UNCHANGED <<kval, kbytes, kres, kaddr>>
    /\ KeyOnly

KeyNext ==
    \/ SignatureIntoBytes \/ SignatureTryFrom \/ SignatureFromHexOfBytes
    \/ DeriveAddress \/ DeriveAddressAgain

SpecKey == KeyInit /\ [][KeyNext]_allVars

-----------------------------------------------------------------------------
(* Merkle witness: a proof is a list of MerkleNodes; the verifier walks it *)
(* from the claimed leaf to the claimed root. Hashes are sequences of      *)
(* numbers, and the digest of two hashes is collision-free: it keeps both  *)
(* operands and where the first one ends.                                  *)

\* longest proof that is built
MaxProof == 3

\* hashes of revisions that are witnessed or stand beside the path
LeafHashes == {<<1>>, <<2>>}

\* crypt::Hasher over left_leaf ++ right_leaf
MerkleHash(left, right) == <<Len(left)>> \o left \o right

\* MerkleNode { left_leaf, right_leaf, successor }
MerkleNode(left, right, succ) ==
    [left_leaf |-> left, right_leaf |-> right, successor |-> succ]

\* a node check that looks for the carried hash on the left only
NodeAccepts_left_only(carried, node) ==
    /\ carried = node.left_leaf
    /\ MerkleHash(node.left_leaf, node.right_leaf) = node.successor

\* a node check that trusts the stored successor
NodeAccepts_no_recompute(carried, node) ==
    carried \in {node.left_leaf, node.right_leaf}

\* one step of the walk: the carried hash is one of the two leaves and the
\* recomputed digest is the stored successor
NodeAccepts(carried, node) ==
    /\ carried \in {node.left_leaf, node.right_leaf}
    /\ MerkleHash(node.left_leaf, node.right_leaf) = node.successor

\* the walk over the nodes in order: the hash carried out of the last node,
\* or a failure at the first node that does not check
RECURSIVE Replay(_, _)
Replay(carried, proof) ==
    IF Len(proof) = 0 THEN Ok(carried)
    ELSE IF ~NodeAccepts(carried, Head(proof)) THEN Err("mismatch")
    ELSE Replay(Head(proof).successor, Tail(proof))

\* the verifier: replay, then compare with the claimed root
MerkleVerify(leaf, proof, root) ==
    LET walked == Replay(leaf, proof)
    IN  IF walked.ok /\ walked.val = root THEN "pass" ELSE "fail"

\* every hash that occurs in the witness
WitnessHashes ==
    LeafHashes \cup {mleaf, mroot}
      \cup {mproof[i].left_leaf : i \in DOMAIN mproof}
      \cup {mproof[i].right_leaf : i \in DOMAIN mproof}
      \cup {mproof[i].successor : i \in DOMAIN mproof}

MerkleInit ==
    /\ CodecIdle /\ KeyIdle /\ BranchIdle /\ StoreIdle /\ B64Idle
    /\ mleaf \in LeafHashes
    /\ mproof = <<>>
    /\ mroot = mleaf
    /\ mchanged = "none"
    /\ mverdict = "none"

\* the tree grows by one level: the path so far is joined with a sibling on
\* either side
Extend(sibling, onLeft) ==
    /\ mchanged = "none" /\ mverdict = "none"
    /\ Len(mproof) < MaxProof
    /\ LET left == IF onLeft THEN mroot ELSE sibling
           right == IF onLeft THEN sibling ELSE mroot
       IN  /\ mproof' = Append(mproof, MerkleNode(left, right, MerkleHash(left, right)))
           /\ mroot' = MerkleHash(left, right)
    /\ UNCHANGED <<mleaf, mchanged, mverdict>>
    /\ MerkleOnly

ExtendLeft == \E sibling \in LeafHashes : Extend(sibling, TRUE)
ExtendRight == \E sibling \in LeafHashes : Extend(sibling, FALSE)

\* one field of one node is replaced by a different hash
Change(field) ==
    /\ mchanged = "none" /\ mverdict = "none"
    /\ \E i \in DOMAIN mproof : \E v \in WitnessHashes :
          /\ v # mproof[i][field]
          /\ mproof' = [mproof EXCEPT ![i][field] = v]
    /\ mchanged' = field
    /\ UNCHANGED <<mleaf, mroot, mverdict>>
    /\ MerkleOnly

ChangeLeft == Change("left_leaf")
ChangeRight == Change("right_leaf")
ChangeSuccessor == Change("successor")

\* a different root is claimed
SubstituteRoot ==
    /\ mchanged = "none" /\ mverdict = "none"
    /\ Len(mproof) > 0
    /\ \E v \in WitnessHashes : v # mroot /\ mroot' = v
    /\ mchanged' = "merkle_root"
    /\ UNCHANGED <<mleaf, mproof, mverdict>>
    /\ MerkleOnly

Verify ==
    /\ mverdict = "none"
    /\ Len(mproof) > 0
    /\ mverdict' = MerkleVerify(mleaf, mproof, mroot)
    /\ UNCHANGED <<mleaf, mproof, mroot, mchanged>>
    /\ MerkleOnly

MerkleNext ==
    \/ ExtendLeft \/ ExtendRight
    \/ ChangeLeft \/ ChangeRight \/ ChangeSuccessor \/ SubstituteRoot
    \/ Verify

SpecMerkle == MerkleInit /\ [][MerkleNext]_allVars

-----------------------------------------------------------------------------
(* Branch: the hashes of the revisions that share a genesis hash, in the   *)
(* order they were appended.                                               *)

\* longest branch that is built
MaxBranch == 4

\* hashes of the revisions that are appended and stored
RevisionHashes == {<<1>>, <<2>>, <<3>>}

\* the per-branch context of a backend
Contexts == {"row1", "row2"}

\* Branch { metadata, hashes }
Branch(metadata, hashes) == [metadata |-> metadata, hashes |-> hashes]

\* an append that puts the new hash in front
Branch_append_front(b, hash) ==
    [b EXCEPT !.hashes = <<hash>> \o b.hashes]

\* append: the new hash is pushed to the end of hashes
Branch_append(b, hash) ==
    [b EXCEPT !.hashes = Append(b.hashes, hash)]

\* a branch starts with its genesis hash
BranchInit ==
    /\ CodecIdle /\ KeyIdle /\ MerkleIdle /\ StoreIdle /\ B64Idle
    /\ \E metadata \in Contexts : \E genesis \in RevisionHashes :
          branch = Branch(metadata, <<genesis>>)

\* a revision hash is appended
AppendHash ==
    /\ Len(branch.hashes) < MaxBranch
    /\ \E hash \in RevisionHashes : branch' = Branch_append(branch, hash)
    /\ BranchOnly

BranchNext == AppendHash

SpecBranch == BranchInit /\ [][BranchNext]_allVars

-----------------------------------------------------------------------------
(* Storage: a backend that keeps the revisions in memory and serializes    *)
(* its operations, called by concurrent callers. A call is invoked, takes  *)
(* effect and returns in separate steps; calls of different callers        *)
(* interleave.                                                             *)

\* store calls made in one run
MaxStores == 2

Callers == {"a", "b"}

\* the revisions that are stored: hash and genesis hash of the branch
Revisions ==
    { [hash |-> <<1>>, genesis |-> <<1>>],
      [hash |-> <<2>>, genesis |-> <<1>>],
      [hash |-> <<3>>, genesis |-> <<3>>] }

\* a caller with no call
IdleCall ==
    [op |-> "none", hash |-> <<>>, genesis |-> <<>>, context |-> "",
     st |-> "idle", seen |-> {}, res |-> NoResult, delivered |-> <<>>]

\* list: the known hashes in store order
Storage_list(held) == Ok([i \in DOMAIN held |-> held[i].hash])

\* the stored entry of a hash
Entry(held, hash) ==
    held[CHOOSE i \in DOMAIN held : held[i].hash = hash]

Known(held, hash) == \E i \in DOMAIN held : held[i].hash = hash

\* read: the revision, NotFound if absent
Storage_read(held, hash) ==
    IF Known(held, hash)
    THEN Ok([hash |-> hash, genesis |-> Entry(held, hash).genesis])
    ELSE Err("NotFound")

\* get_context: the context the hash was stored with
Storage_get_context(held, hash) ==
    IF Known(held, hash) THEN Ok(Entry(held, hash).context) ELSE Err("NotFound")

\* the chain of a genesis hash: the first entry opens the branch with its
\* context, the later ones are appended
RECURSIVE BranchOf(_, _)
BranchOf(held, genesis) ==
    IF Len(held) = 0 THEN <<>>
    ELSE LET before == BranchOf(SubSeq(held, 1, Len(held) - 1), genesis)
             last == held[Len(held)]
         IN  IF last.genesis # genesis THEN before
             ELSE IF before = <<>> THEN Branch(last.context, <<last.hash>>)
             ELSE Branch_append(before, last.hash)

\* get_branch that reports an unknown hash as a backend failure
Storage_get_branch_generic_error(held, hash) ==
    IF Known(held, hash)
    THEN Ok(BranchOf(held, Entry(held, hash).genesis))
    ELSE Err("Backend")

\* get_branch: the full chain that contains the hash
Storage_get_branch(held, hash) ==
    IF Known(held, hash)
    THEN Ok(BranchOf(held, Entry(held, hash).genesis))
    ELSE Err("NotFound")

\* store: a retried write of a hash that is held changes nothing
Storage_store(held, call) ==
    IF Known(held, call.hash) THEN held
    ELSE Append(held, [hash |-> call.hash, genesis |-> call.genesis,
                       context |-> call.context])

\* a store that reports success before it has taken effect
StoreMayReturn_early(call) ==
    call.op = "store" /\ call.st \in {"invoked", "applied"}

\* a store returns once it has taken effect
StoreMayReturn(call) ==
    call.op = "store" /\ call.st = "applied"

\* a backend that tells its subscribers of new hashes only
ShouldNotify_new_only(held, hash) == ~Known(held, hash)

\* every store is told to the subscribers
ShouldNotify(held, hash) == TRUE

\* the callbacks of the live registrations are invoked with the hash and a
\* description of the update
Notify(cs, hash) ==
    [c \in DOMAIN cs |->
        IF cs[c].op = "update_handler" /\ cs[c].st = "subscribed"
        THEN [cs[c] EXCEPT !.delivered = Append(@, <<hash, "stored">>)]
        ELSE cs[c]]

Free(c) == calls[c].st \in {"idle", "returned"}

StoreInit ==
    /\ CodecIdle /\ KeyIdle /\ MerkleIdle /\ BranchIdle /\ B64Idle
    /\ revs = <<>>
    /\ calls = [c \in Callers |-> IdleCall]
    /\ acked = {}
    /\ stores = 0

\* a caller calls store(revision, context)
InvokeStore ==
    /\ stores < MaxStores
    /\ \E c \in Callers : \E rev \in Revisions : \E context \in Contexts :
          /\ Free(c)
          /\ calls' = [calls EXCEPT ![c] =
                [IdleCall EXCEPT !.op = "store", !.hash = rev.hash,
                    !.genesis = rev.genesis, !.context = context,
                    !.st = "invoked"]]
    /\ stores' = stores + 1
    /\ UNCHANGED <<revs, acked>>
    /\ StoreOnly

\* the backend persists the revision and tells the subscribers
ApplyStore ==
    /\ \E c \in Callers :
          /\ calls[c].op = "store" /\ calls[c].st = "invoked"
          /\ revs' = Storage_store(revs, calls[c])
          /\ LET told == IF ShouldNotify(revs, calls[c].hash)
                         THEN Notify(calls, calls[c].hash) ELSE calls
             IN  calls' = [told EXCEPT ![c].st = "applied"]
    /\ UNCHANGED <<acked, stores>>
    /\ StoreOnly

\* store returns success
ReturnStore ==
    /\ \E c \in Callers :
          /\ StoreMayReturn(calls[c])
          /\ calls' = [calls EXCEPT ![c].st = "returned", ![c].res = Ok(<<>>)]
          /\ acked' = acked \cup {calls[c].hash}
    /\ UNCHANGED <<revs, stores>>
    /\ StoreOnly

\* a caller calls read, get_context or get_branch with a hash, or list; the
\* call notes which of the hashes it asks for had been stored with success
\* when it started
InvokeQuery ==
    /\ \E c \in Callers : \E op \in {"read", "get_context", "get_branch", "list"} :
       \E hash \in RevisionHashes :
          /\ Free(c)
          /\ op = "list" => hash = <<1>>
          /\ calls' = [calls EXCEPT ![c] =
                [IdleCall EXCEPT !.op = op,
                    !.hash = IF op = "list" THEN <<>> ELSE hash,
                    !.st = "invoked",
                    !.seen = IF op = "list" THEN acked ELSE acked \cap {hash}]]
    /\ UNCHANGED <<revs, acked, stores>>
    /\ StoreOnly

\* the backend answers the query from what it holds and the call returns
ReturnQuery ==
    /\ \E c \in Callers :
          /\ calls[c].st = "invoked"
          /\ calls[c].op \in {"read", "get_context", "get_branch", "list"}
          /\ calls' = [calls EXCEPT ![c].st = "returned", ![c].res =
                CASE calls[c].op = "read" -> Storage_read(revs, calls[c].hash)
                  [] calls[c].op = "get_context" -> Storage_get_context(revs, calls[c].hash)
                  [] calls[c].op = "get_branch" -> Storage_get_branch(revs, calls[c].hash)
                  [] calls[c].op = "list" -> Storage_list(revs)]
    /\ UNCHANGED <<revs, acked, stores>>
    /\ StoreOnly

\* a caller calls update_handler(f): the registration is live until the
\* call returns
InvokeUpdateHandler ==
    /\ \E c \in Callers :
          /\ Free(c)
          /\ calls' = [calls EXCEPT ![c] =
                [IdleCall EXCEPT !.op = "update_handler", !.st = "subscribed"]]
    /\ UNCHANGED <<revs, acked, stores>>
    /\ StoreOnly

\* an unrecoverable backend error ends a subscription: update_handler
\* returns the error, its only way to return
BackendFails ==
    /\ \E c \in Callers :
          /\ calls[c].op = "update_handler" /\ calls[c].st = "subscribed"
          /\ calls' = [calls EXCEPT ![c].st = "returned", ![c].res = Err("Backend")]
    /\ UNCHANGED <<revs, acked, stores>>
    /\ StoreOnly

StoreNext ==
    \/ InvokeStore \/ ApplyStore \/ ReturnStore
    \/ InvokeQuery \/ ReturnQuery
    \/ InvokeUpdateHandler \/ BackendFails

SpecStore == StoreInit /\ [][StoreNext]_allVars

-----------------------------------------------------------------------------
(* Base64: a byte vector whose text form is standard base64. A text is a   *)
(* sequence of characters.                                                 *)

\* longest text that is parsed
MaxText == 5
\* longest byte vector that is formatted
MaxBytes == 3

\* the alphabet of base64::engine::general_purpose::STANDARD
Base64Alphabet ==
    << "A", "B", "C", "D", "E", "F", "G", "H", "I", "J", "K", "L", "M", "N", "O", "P",
       "Q", "R", "S", "T", "U", "V", "W", "X", "Y", "Z", "a", "b", "c", "d", "e", "f",
       "g", "h", "i", "j", "k", "l", "m", "n", "o", "p", "q", "r", "s", "t", "u", "v",
       "w", "x", "y", "z", "0", "1", "2", "3", "4", "5", "6", "7", "8", "9", "+", "/" >>

\* the six bits of a symbol, -1 for a character outside the alphabet
Base64Val(ch) ==
    IF \E i \in DOMAIN Base64Alphabet : Base64Alphabet[i] = ch
    THEN (CHOOSE i \in DOMAIN Base64Alphabet : Base64Alphabet[i] = ch) - 1
    ELSE -1

\* the bytes of a run of symbols: four symbols give three bytes, a last
\* group of three gives two and of two gives one
RECURSIVE DecodeSymbols(_)
DecodeSymbols(v) ==
    IF Len(v) < 2 THEN <<>>
    ELSE IF Len(v) = 2 THEN <<v[1] * 4 + v[2] \div 16>>
    ELSE IF Len(v) = 3
         THEN <<v[1] * 4 + v[2] \div 16, (v[2] % 16) * 16 + v[3] \div 4>>
    ELSE <<v[1] * 4 + v[2] \div 16, (v[2] % 16) * 16 + v[3] \div 4,
           (v[3] % 4) * 64 + v[4]>> \o DecodeSymbols(SubSeq(v, 5, Len(v)))

\* a decoder that lets the unused bits of the last symbol be anything
Engine_decode_trailing_bits(value) ==
    LET n == Len(value)
        pad == IF n >= 1 /\ value[n] = "="
               THEN (IF n >= 2 /\ value[n - 1] = "=" THEN 2 ELSE 1)
               ELSE 0
        data == SubSeq(value, 1, n - pad)
        v == [i \in DOMAIN data |-> Base64Val(data[i])]
    IN  IF \E i \in DOMAIN v : v[i] < 0 THEN Err("InvalidByte")
        ELSE IF Len(v) % 4 = 1 THEN Err("InvalidLength")
        ELSE IF n % 4 # 0 THEN Err("InvalidPadding")
        ELSE Ok(DecodeSymbols(v))

\* base64::Engine::decode with STANDARD: every byte up to the padding is a
\* symbol of the alphabet, the padding is canonical (the length is a
\* multiple of four, one or two = at the end) and the bits of the last
\* symbol that belong to no byte are zero
Engine_decode(value) ==
    LET n == Len(value)
        pad == IF n >= 1 /\ value[n] = "="
               THEN (IF n >= 2 /\ value[n - 1] = "=" THEN 2 ELSE 1)
               ELSE 0
        data == SubSeq(value, 1, n - pad)
        v == [i \in DOMAIN data |-> Base64Val(data[i])]
    IN  IF \E i \in DOMAIN v : v[i] < 0 THEN Err("InvalidByte")
        ELSE IF Len(v) % 4 = 1 THEN Err("InvalidLength")
        ELSE IF n % 4 # 0 THEN Err("InvalidPadding")
        ELSE IF pad = 1 /\ v[Len(v)] % 4 # 0 THEN Err("InvalidLastSymbol")
        ELSE IF pad = 2 /\ v[Len(v)] % 16 # 0 THEN Err("InvalidLastSymbol")
        ELSE Ok(DecodeSymbols(v))

\* the text without its spaces and line ends
StripWhitespace(value) == SelectSeq(value, LAMBDA ch : ch \notin {" ", "\n"})

\* a parser that drops whitespace before it decodes
Base64_from_str_trimmed(value) ==
    LET vec == Engine_decode(StripWhitespace(value))
    IN  IF vec.ok THEN Ok(vec.val) ELSE Err("()")

\* <Base64 as FromStr>::from_str
Base64_from_str(value) ==
    LET vec == Engine_decode(value)
    IN  IF vec.ok THEN Ok(vec.val) ELSE Err("()")

\* Display for Base64 (Base64Display with STANDARD): three bytes give four
\* symbols, a last group of one or two bytes is padded with =
RECURSIVE Base64_to_string(_)
Base64_to_string(b) ==
    LET sym(k) == Base64Alphabet[k + 1]
    IN  IF Len(b) = 0 THEN <<>>
        ELSE IF Len(b) = 1
             THEN <<sym(b[1] \div 4), sym((b[1] % 4) * 16), "=", "=">>
        ELSE IF Len(b) = 2
             THEN <<sym(b[1] \div 4), sym((b[1] % 4) * 16 + b[2] \div 16),
                    sym((b[2] % 16) * 4), "=">>
        ELSE <<sym(b[1] \div 4), sym((b[1] % 4) * 16 + b[2] \div 16),
               sym((b[2] % 16) * 4 + b[3] \div 64), sym(b[3] % 64)>>
               \o Base64_to_string(SubSeq(b, 4, Len(b)))

\* characters of the texts that are parsed: symbols, padding, whitespace
TextChars == {"A", "Q", "/", "=", " ", "\n"}

\* a text is given, or a byte vector
B64Init ==
    /\ CodecIdle /\ KeyIdle /\ MerkleIdle /\ BranchIdle /\ StoreIdle
    /\ bres = NoResult /\ bout = <<>>
    /\ \/ /\ bphase = "text" /\ bvec = <<>>
          /\ \E n \in 0..MaxText : btext \in [1..n -> TextChars]
       \/ /\ bphase = "bytes" /\ btext = <<>>
          /\ \E n \in 0..MaxBytes : bvec \in [1..n -> SeedBytes]

\* Base64::from(vec).to_string()
B64Format ==
    /\ bphase = "bytes"
    /\ btext' = Base64_to_string(bvec)
    /\ bphase' = "text"
    /\ UNCHANGED <<bvec, bres, bout>>
    /\ B64Only

\* text.parse::<Base64>()
B64Parse ==
    /\ bphase = "text"
    /\ bres' = Base64_from_str(btext)
    /\ bphase' = "parsed"
    /\ UNCHANGED <<bvec, btext, bout>>
    /\ B64Only

\* to_string() of the parsed value
B64Show ==
    /\ bphase = "parsed" /\ bres.ok
    /\ bout' = Base64_to_string(bres.val)
    /\ bphase' = "shown"
    /\ UNCHANGED <<bvec, btext, bres>>
    /\ B64Only

B64Next == B64Format \/ B64Parse \/ B64Show

SpecB64 == B64Init /\ [][B64Next]_allVars

-----------------------------------------------------------------------------
(* FileContent: read from a JSON object with the fields data, filename,    *)
(* size and comment.                                                       *)

\* largest size a JSON object states
MaxFileSize == 4

\* derive(Deserialize) for FileContent: data is read as a Base64, size as
\* a u32, the two strings as they are; every field that reads is kept
FileContent_deserialize(json) ==
    LET data == Base64_from_str(json.data)
    IN  IF ~data.ok THEN Err("Invalid Base64")
        ELSE IF json.size < 0 THEN Err("invalid value: expected u32")
        ELSE Ok([data |-> data.val, filename |-> json.filename,
                 size |-> json.size, comment |-> json.comment])

\* a JSON object is given
FileInit ==
    /\ CodecIdle /\ KeyIdle /\ MerkleIdle /\ BranchIdle /\ StoreIdle
    /\ bvec = <<>> /\ bres = NoResult /\ bout = <<>>
    /\ bphase = "json"
    /\ \E n \in 0..4 : \E data \in [1..n -> TextChars] :
       \E size \in -1..MaxFileSize :
          btext = [data |-> data, filename |-> "a.txt", size |-> size,
                   comment |-> ""]

\* serde_json::from_value::<FileContent>(json)
FileDeserialize ==
    /\ bphase = "json"
    /\ bres' = FileContent_deserialize(btext)
    /\ bphase' = "read"
    /\ UNCHANGED <<bvec, btext, bout>>
    /\ B64Only

FileNext == FileDeserialize

SpecFile == FileInit /\ [][FileNext]_allVars

-----------------------------------------------------------------------------
(* from_hex called on its own: x is SIZE, s the string, res the Option.    *)

\* longest string handed to from_hex
MaxHexLen == 6

\* bytes of the strings: hex digits of both cases, a letter that is no
\* digit, and the two bytes of a non-ASCII character
HexTextBytes == {"a", "F", "g", "C3", "A9"}

\* a string (valid UTF-8: the two bytes of the character stay together) and
\* the SIZE of a Hash or of a PublicKey
HexInit ==
    /\ KeyIdle /\ MerkleIdle /\ BranchIdle /\ StoreIdle /\ B64Idle
    /\ kind = "Hash" /\ edits = 0 /\ res = NoResult /\ out = <<>>
    /\ phase = "string"
    /\ x \in {HashSize, PublicKeySize}
    /\ \E n \in 0..MaxHexLen : s \in [1..n -> HexTextBytes]
    /\ \A i \in DOMAIN s :
          /\ s[i] = "C3" => (i < Len(s) /\ s[i + 1] = "A9")
          /\ s[i] = "A9" => (i > 1 /\ s[i - 1] = "C3")

\* from_hex::<SIZE>(s)
FromHex ==
    /\ phase = "string"
    /\ res' = from_hex(x, s)
    /\ phase' = "hexed"
    /\ UNCHANGED <<kind, x, s, edits, out>>
    /\ CodecOnly

HexNext == FromHex

SpecHex == HexInit /\ [][HexNext]_allVars

-----------------------------------------------------------------------------
(* What the specification expects of a string, used to state the claims *)

\* hex characters from_str expects after the prefix, if any
ExactLen(k) ==
    CASE k = "Hash" -> 2 * HashSize
      [] k = "TxHash" -> 2 * TxHashSize
      [] k = "PublicKey" -> 2 * PublicKeySize
      [] k = "Signature" -> 2 * SignatureSize

\* the hex payload of a string: what follows the 0x prefix, if there is one
Payload(k, t) ==
    IF k # "Hash" /\ starts_with_0x(t) THEN strip_0x(t) ELSE t

\* characters, not bytes: a continuation byte does not start a character
CharLen(t) == Cardinality({i \in DOMAIN t : t[i] # "A9"})

AllHex(t) == \A i \in DOMAIN t : HexVal(t[i]) >= 0

\* the check that fails first when the checks run in the order case, prefix,
\* length, hex digits, structure; two names where a non-ASCII character makes
\* the length and the digits fail together
ExpectedChecks(k, t) ==
    IF HasUpper(t) THEN {"case"}
    ELSE IF (k = "Hash") = starts_with_0x(t) THEN {"prefix"}
    ELSE LET pl == Payload(k, t)
         IN  IF ~is_ascii(pl) THEN {"length", "hex"}
             ELSE IF Len(pl) # ExactLen(k) THEN {"length"}
             ELSE IF ~AllHex(pl) THEN {"hex"}
             ELSE LET b == hex_decode_to_slice(pl, ExactLen(k) \div 2).val
                      st == CASE k = "PublicKey" -> PublicKey_try_from(b)
                              [] k = "Signature" -> Signature_try_from(b)
                              [] OTHER -> Ok(b)
                  IN  IF st.ok THEN {"ok"} ELSE {st.err}

\* the checks an outcome of from_str can stand for
ReportedChecks(k, r) ==
    IF r.ok THEN {"ok"}
    ELSE CASE r.err = "()" ->
                {"case", "prefix", "length", "hex", "InvalidPublicKey"}
           [] r.err = "NotAsciiLower" -> {"case"}
           [] r.err \in {"NoPrefix", "HASH HAS NO '0x' PREFIX"} -> {"prefix"}
           [] r.err = "LENGTH NOT EQUAL TO 64" -> {"length"}
           [] r.err = "UNABLE TO DECODE" -> {"hex"}
           [] r.err = "NotHex" -> {"length", "hex"}
           [] r.err = "DecryptFail(InvalidSignature)" -> {"InvalidSignature"}
           [] r.err = "DecryptFail(InvalidRecoveryId)" -> {"InvalidRecoveryId"}

\* strings with one defect each, built from the text form of a value
Probes(k, v) ==
    LET f == to_stackstr(k, v)
    IN  { f \o <<"0", "0">>,
          SubSeq(f, 1, Len(f) - 2),
          [f EXCEPT ![Len(f)] = "g"],
          [f EXCEPT ![Len(f)] = "f"],
          Prefix0x \o f,
          Payload(k, f) }

-----------------------------------------------------------------------------
(* serde: a value is serialized to a string, and a string (the serialized  *)
(* one or a damaged one) is deserialized.                                  *)

\* Serialize for TxHash that writes the digits without the prefix
serialize_bare_tx_hash(k, v) ==
    CASE k = "Hash" -> hex_encode(v)
      [] k = "TxHash" -> hex_encode(v)
      [] k = "PublicKey" -> PublicKey_to_stackstr(v)
      [] k = "Signature" -> Prefix0x \o hex_encode(Signature_into_bytes(v))

\* Serialize::serialize: the string handed to serialize_str
serialize(k, v) ==
    CASE k = "Hash" -> hex_encode(v)
      [] k = "TxHash" -> Prefix0x \o hex_encode(v)
      [] k = "PublicKey" -> PublicKey_to_stackstr(v)
      [] k = "Signature" -> Prefix0x \o hex_encode(Signature_into_bytes(v))

\* Deserialize::deserialize: the string is parsed, a failure becomes a
\* custom error
deserialize(k, t) ==
    LET parsed == from_str(k, t)
    IN  IF parsed.ok THEN parsed
        ELSE CASE k \in {"Hash", "TxHash"} -> Err("Invalid sha3_512 hash")
               [] k = "PublicKey" -> Err("not a valid signature (or maybe not supported)")
               [] k = "Signature" -> Err("Signature problem is: " \o parsed.err)

SerdeInit ==
    /\ KeyIdle /\ MerkleIdle /\ BranchIdle /\ StoreIdle /\ B64Idle
    /\ kind \in Kinds
    /\ x \in Values(kind)
    /\ s = <<>> /\ edits = 0 /\ res = NoResult /\ out = <<>>
    /\ phase = "value"

\* serde_json::to_value(&value)
SerializeValue ==
    /\ phase = "value"
    /\ s' = serialize(kind, x)
    /\ phase' = "json"
    /\ UNCHANGED <<kind, x, edits, res, out>>
    /\ CodecOnly

\* serde_json::from_value of the serialized string, of that string in upper
\* case or of one of its damaged forms
DeserializeText ==
    /\ phase = "json"
    /\ \E t \in Probes(kind, x) \cup {s, [i \in DOMAIN s |-> ToUpperByte(s[i])]} :
          /\ s' = t
          /\ res' = deserialize(kind, t)
    /\ phase' = "read"
    /\ UNCHANGED <<kind, x, edits, out>>
    /\ CodecOnly

SerdeNext == SerializeValue \/ DeserializeText

SpecSerde == SerdeInit /\ [][SerdeNext]_allVars

-----------------------------------------------------------------------------
(* Claims *)

\* C1: Round-trip law. For every valid value x of Hash, TxHash, PublicKey
\* and Signature, parsing the string that formatting x produced succeeds and
\* yields x.
RoundTripLaw ==
    (phase \in {"parsed", "shown"} /\ edits = 0) => (res.ok /\ res.val = x)

\* a Signature with recovery id 3 was formatted and parsed back
RoundTripDone ==
    /\ phase = "parsed" /\ edits = 0
    /\ kind = "Signature" /\ x[3] = 3
    /\ s = Signature_to_stackstr(x) /\ res.ok

\* C2: Canonical encoding is unique. Every string that from_str accepts is
\* the text form of the value it parses to: format(parse(s)) = s.
CanonicalEncodingUnique == phase = "shown" => out = s

\* C3: Hash::from_str rejects every input that contains an uppercase letter.
HashRejectsUppercase ==
    (phase = "parsed" /\ kind = "Hash" /\ HasUpper(s)) => ~res.ok

\* C4: TxHash::from_str rejects every input that contains an uppercase
\* letter.
TxHashRejectsUppercase ==
    (phase = "parsed" /\ kind = "TxHash" /\ HasUpper(s)) => ~res.ok

\* C5: TxHash::from_str rejects every input that does not start with 0x.
TxHashRejectsUnprefixed ==
    (phase = "parsed" /\ kind = "TxHash" /\ ~starts_with_0x(s)) => ~res.ok

\* C6: Hash::from_str rejects every input that carries a 0x prefix, in
\* particular a canonical hash string with 0x put in front.
HashRejectsPrefixed ==
    (phase = "parsed" /\ kind = "Hash" /\ starts_with_0x(s)) => ~res.ok

\* a canonical hash string with 0x in front was parsed and rejected
PrefixedHashParsed ==
    /\ phase = "parsed" /\ kind = "Hash"
    /\ s = Prefix0x \o Hash_to_stackstr(x)
    /\ ~res.ok

\* C7: PublicKey::from_str and Signature::from_str reject every input that
\* contains an uppercase letter and every input that does not start with 0x.
\* For Signature the error of an input with an uppercase letter is
\* NotAsciiLower, and the error of an input without the prefix is NoPrefix
\* (when it has an uppercase letter as well, the case check comes first and
\* the error is NotAsciiLower).
KeyAndSignatureRejectCaseAndPrefix ==
    (phase = "parsed" /\ kind \in {"PublicKey", "Signature"}) =>
        /\ HasUpper(s) =>
              /\ ~res.ok
              /\ kind = "Signature" => res.err = "NotAsciiLower"
        /\ ~starts_with_0x(s) =>
              /\ ~res.ok
              /\ (kind = "Signature" /\ ~HasUpper(s)) => res.err = "NoPrefix"

\* a signature string without prefix and with an uppercase digit was parsed
UpperUnprefixedSignatureParsed ==
    /\ phase = "parsed" /\ kind = "Signature"
    /\ HasUpper(s) /\ ~starts_with_0x(s)
    /\ Len(s) = ExactLen("Signature") /\ AllHex(s)
    /\ res.err = "NotAsciiLower"

\* C8: Exact-length rule. For every identifier kind from_str rejects every
\* input whose hex payload is shorter or longer than the exact count.
ExactLengthRule ==
    (/\ phase = "parsed"
     /\ \/ Len(Payload(kind, s)) # ExactLen(kind)
        \/ CharLen(Payload(kind, s)) # ExactLen(kind))
    => ~res.ok

\* a hash string of hex digits, one byte too long, was parsed and rejected
TooLongHashParsed ==
    /\ phase = "parsed" /\ kind = "Hash"
    /\ Len(s) = ExactLen("Hash") + 2 /\ AllHex(s)
    /\ ~res.ok

\* C9: The parse checks run in the order case, prefix, length, hex decode,
\* structural validation, and the error returned is that of the first check
\* that fails.
ParseCheckOrder ==
    phase = "parsed" =>
        ExpectedChecks(kind, s) \cap ReportedChecks(kind, res) # {}

\* C10: Each parse failure cause is reported as a distinct error kind: two
\* inputs of one identifier kind that fail for different causes get
\* different error values.
DistinctErrorKinds ==
    (phase = "parsed" /\ ~res.ok) =>
        \A p \in Probes(kind, x) :
            LET r2 == from_str(kind, p)
            IN  (~r2.ok /\ ExpectedChecks(kind, p) \cap ExpectedChecks(kind, s) = {})
                    => r2.err # res.err

\* C11: Recovery-id offset. Converting a Signature with recovery id r in
\* 0..3 to its byte form writes the (r, s) bytes first and r + 27 as the last
\* byte; converting a byte array with valid (r, s) whose last byte is b in
\* 27..30 back yields recovery id b - 27.
RecoveryIdOffset ==
    /\ kphase = "encoded" =>
          /\ Len(kbytes) = SignatureSize
          /\ SubSeq(kbytes, 1, 2 * ScalarSize)
                = ToBytesBE(kval[1]) \o ToBytesBE(kval[2])
          /\ kbytes[SignatureSize] = kval[3] + 27
    /\ (/\ kphase = "decoded"
        /\ kbytes[SignatureSize] \in 27..30
        /\ FromBytesBE(SubSeq(kbytes, 1, ScalarSize)) < CurveOrder
        /\ FromBytesBE(SubSeq(kbytes, ScalarSize + 1, 2 * ScalarSize)) < CurveOrder)
       => (kres.ok /\ kres.val[3] = kbytes[SignatureSize] - 27)

\* a Signature with recovery id 0 was encoded with last byte 27 and decoded
\* back to recovery id 0
RecoveryIdZeroThroughBytes ==
    /\ kphase = "decoded" /\ kval # <<>> /\ kval[3] = 0
    /\ kbytes[SignatureSize] = 27
    /\ kres.ok /\ kres.val[3] = 0

\* C12: Decoding a Signature from bytes, and Signature::from_str on the
\* corresponding hex string, fails whenever the trailing byte is outside
\* 27..30; it never yields a Signature for such input.
BadRecoveryByteRejected ==
    (kphase \in {"decoded", "parsed"} /\ kbytes[SignatureSize] \notin 27..30)
        => ~kres.ok

\* the hex string of an array with valid scalars and the raw id 3 as last
\* byte was parsed and rejected for its recovery id
RawRecoveryIdParsed ==
    /\ kphase = "parsed" /\ kbytes[SignatureSize] = 3
    /\ kres.err = "DecryptFail(InvalidRecoveryId)"

\* C13: Address derivation. The address is the last 20 bytes (bytes 12..32)
\* of the Keccak-256 digest of the bytes that follow the leading format byte
\* of the uncompressed serialization, and deriving twice from the same key
\* gives identical results.
AddressIsDigestTail ==
    kphase \in {"address", "address2"} =>
        LET digest == Keccak256(ToBytesBE(kval[1]) \o ToBytesBE(kval[2]))
        IN  /\ Len(kaddr) = 20
            /\ \A i \in 1..20 : kaddr[i] = digest[Len(digest) - 20 + i]
            /\ kphase = "address2" => kaddr2 = kaddr

\* an address was derived twice from one key
AddressDerivedTwice ==
    /\ kphase = "address2" /\ kval \in PublicKeyValues
    /\ Len(kaddr2) = 20

\* the proof as the claim describes it: every successor is the digest of its
\* two leaves, the first node holds the leaf, each later node holds the
\* successor before it, the last successor is the root
ProofChains ==
    /\ Len(mproof) > 0
    /\ \A i \in DOMAIN mproof :
          /\ mproof[i].successor = MerkleHash(mproof[i].left_leaf, mproof[i].right_leaf)
          /\ (IF i = 1 THEN mleaf ELSE mproof[i - 1].successor)
                \in {mproof[i].left_leaf, mproof[i].right_leaf}
    /\ mproof[Len(mproof)].successor = mroot

\* C14: Merkle replay, positive. For a proof in which every node's successor
\* is H(left_leaf ++ right_leaf), the first node contains the claimed leaf,
\* each later node contains the previous successor and the last successor is
\* merkle_root, verification succeeds.
MerkleReplayPositive ==
    (mverdict # "none" /\ ProofChains) => mverdict = "pass"

\* a proof of full length whose path lies on the right of its first node and
\* on the left of its last node was verified and passed
ThreeNodeProofPassed ==
    /\ mverdict = "pass" /\ Len(mproof) = MaxProof
    /\ mproof[1].right_leaf = mleaf /\ mproof[1].left_leaf # mleaf
    /\ mproof[MaxProof].left_leaf = mproof[MaxProof - 1].successor

\* C15: Merkle replay, negative. From a proof that verifies, changing any
\* single left_leaf, right_leaf or successor of any node, or claiming a
\* different merkle_root, makes verification fail; a mismatch at any step
\* never results in a pass.
MerkleReplayNegative ==
    /\ (mverdict # "none" /\ mchanged # "none") => mverdict = "fail"
    /\ mverdict = "pass" => ProofChains

\* the sibling beside the path in the first node of a full proof was changed
\* and the verification failed
ChangedSiblingFailed ==
    /\ mverdict = "fail" /\ mchanged = "right_leaf" /\ Len(mproof) = MaxProof
    /\ mproof[1].left_leaf = mleaf
    /\ mproof[1].successor # MerkleHash(mproof[1].left_leaf, mproof[1].right_leaf)

\* C16: Branch append invariant. Each append increases the length of hashes
\* by exactly one, every entry that was present keeps its index and value,
\* hashes[0] (the genesis hash) is never altered, and no entry is removed or
\* reordered.
BranchAppendInvariant ==
    [][/\ Len(branch'.hashes) = Len(branch.hashes) + 1
       /\ \A i \in 1..Len(branch.hashes) : branch'.hashes[i] = branch.hashes[i]
       /\ branch'.hashes[1] = branch.hashes[1]
       /\ branch'.metadata = branch.metadata]_allVars

\* a branch has grown to full length by appends of hashes other than its
\* genesis hash
BranchGrown ==
    /\ branch # <<>> /\ Len(branch.hashes) = MaxBranch
    /\ \A i \in 2..MaxBranch : branch.hashes[i] # branch.hashes[1]

\* the hashes a sequence holds
Elements(seq) == {seq[i] : i \in DOMAIN seq}

\* C17: Storage visibility. Under any interleaving of concurrent callers,
\* once a store of a revision has returned success, every read, get_branch
\* and list call that starts afterwards, from any caller, observes that
\* revision's hash.
StoreVisibility ==
    \A c \in Callers :
        calls[c].st = "returned" =>
            /\ (calls[c].op = "read" /\ calls[c].hash \in calls[c].seen)
                  => (calls[c].res.ok /\ calls[c].res.val.hash = calls[c].hash)
            /\ (calls[c].op = "get_branch" /\ calls[c].hash \in calls[c].seen)
                  => (/\ calls[c].res.ok
                      /\ calls[c].hash \in Elements(calls[c].res.val.hashes))
            /\ calls[c].op = "list"
                  => (/\ calls[c].res.ok
                      /\ calls[c].seen \subseteq Elements(calls[c].res.val))

\* caller b started get_branch for a hash after the store of caller a had
\* returned, and got the branch with that hash appended to its genesis
StoredByOtherCallerSeen ==
    /\ calls["a"].op = "store" /\ calls["a"].st = "returned"
    /\ calls["b"].op = "get_branch" /\ calls["b"].st = "returned"
    /\ calls["b"].hash = calls["a"].hash
    /\ calls["b"].hash \in calls["b"].seen
    /\ calls["b"].res.ok /\ Len(calls["b"].res.val.hashes) = 2

\* C18: update_handler never completes successfully: the call keeps running
\* as a subscription or returns an error; while the registration is live
\* its callback is invoked with (hash, description) for every store that
\* happens after registration.
UpdateHandlerSubscription ==
    [][\A c \in Callers :
          /\ (calls'[c].op = "update_handler" /\ calls'[c].st = "returned")
                => ~calls'[c].res.ok
          /\ \A d \in Callers :
                (/\ calls[c].op = "update_handler" /\ calls[c].st = "subscribed"
                 /\ calls[d].op = "store" /\ calls[d].st = "invoked"
                 /\ calls'[d].st = "applied")
                => (/\ Len(calls'[c].delivered) = Len(calls[c].delivered) + 1
                    /\ calls'[c].delivered[Len(calls'[c].delivered)][1] = calls[d].hash
                    /\ calls'[c].delivered[Len(calls'[c].delivered)][2] = "stored")]_allVars

\* a subscriber was told of a store and of its retry, and its call then
\* returned a backend error
SubscriberToldThenFailed ==
    \E c \in Callers :
        /\ calls[c].op = "update_handler" /\ calls[c].st = "returned"
        /\ calls[c].res.err = "Backend"
        /\ Len(calls[c].delivered) = 2
        /\ calls[c].delivered[1][1] = calls[c].delivered[2][1]

\* C19: read, get_context and get_branch called with a hash that was never
\* stored fail with an error the caller can tell as NotFound from every
\* other storage error.
UnknownHashNotFound ==
    \A c \in Callers :
        calls[c].st = "returned" =>
            /\ (/\ calls[c].op \in {"read", "get_context", "get_branch"}
                /\ ~Known(revs, calls[c].hash))
                  => (~calls[c].res.ok /\ calls[c].res.err = "NotFound")
            /\ (~calls[c].res.ok /\ calls[c].res.err = "NotFound")
                  => (/\ calls[c].op \in {"read", "get_context", "get_branch"}
                      /\ calls[c].hash \notin calls[c].seen)

\* get_branch of a hash returned NotFound while the backend held another
\* revision
UnknownBranchAsked ==
    \E c \in Callers :
        /\ calls[c].op = "get_branch" /\ calls[c].st = "returned"
        /\ calls[c].res.err = "NotFound"
        /\ ~Known(revs, calls[c].hash) /\ Len(revs) > 0

\* C20: Base64::from_str rejects every input that contains whitespace, even
\* when removing the whitespace would leave a valid standard-alphabet
\* base64 string.
Base64RejectsWhitespace ==
    (bphase \in {"parsed", "shown"} /\ \E i \in DOMAIN btext : btext[i] \in {" ", "\n"})
        => ~bres.ok

\* a text of four symbols with a space inside, valid base64 once the space
\* is taken out, was parsed and rejected
SpacedBase64Parsed ==
    /\ bphase = "parsed" /\ ~bres.ok
    /\ Len(btext) = 5 /\ btext[3] = " "
    /\ Engine_decode(StripWhitespace(btext)).ok

\* C21: Base64 round trip. For every string that Base64::from_str accepts,
\* formatting the parsed value with Display returns exactly that string; and
\* for every byte vector, parsing the Display output of Base64::from(v)
\* yields v.
Base64RoundTrip ==
    /\ bphase = "shown" => bout = btext
    /\ (bphase \in {"parsed", "shown"} /\ (bvec # <<>> \/ btext = <<>>))
          => (bres.ok /\ bres.val = bvec)

\* a padded text of four characters was accepted and formatted again
PaddedTextShown ==
    /\ bphase = "shown" /\ bvec = <<>>
    /\ Len(btext) = 4 /\ btext[3] = "=" /\ btext[4] = "="
    /\ Len(bres.val) = 1

\* C22: TxHash::from_str accepts a transaction hash with or without the 0x
\* prefix: for every string h of exactly the hex digits of a TxHash, h and
\* 0x + h both parse to the same TxHash; and the documented error
\* "HASH HAS NO '0x' PREFIX" is returned when the input lacks the prefix.
TxHashPrefixOptionalAndReported ==
    (phase = "parsed" /\ kind = "TxHash") =>
        /\ (/\ Len(Payload(kind, s)) = ExactLen(kind)
            /\ AllHex(Payload(kind, s)))
              => (/\ res.ok
                  /\ res.val = hex_decode_to_slice(Payload(kind, s), TxHashSize).val)
        /\ ~starts_with_0x(s)
              => (~res.ok /\ res.err = "HASH HAS NO '0x' PREFIX")

\* C23: Every FileContent the library accepts by deserialization has size
\* equal to the byte length of its decoded data payload; a FileContent whose
\* size differs from the payload length is rejected.
FileContentSizeChecked ==
    (bphase = "read" /\ bres.ok) => bres.val.size = Len(bres.val.data)

\* C24: from_hex::<SIZE>(s) returns Some(bytes) exactly when s is ASCII, has
\* exactly SIZE * 2 characters and consists only of hex digits of either
\* case, with bytes the decoded value; for every other s, of a different
\* length included, it returns None.
FromHexExact ==
    phase = "hexed" =>
        LET wellFormed == is_ascii(s) /\ CharLen(s) = 2 * x /\ AllHex(s)
        IN  /\ res.ok <=> wellFormed
            /\ res.ok =>
                  /\ Len(res.val) = x
                  /\ \A i \in 1..x :
                        res.val[i] = HexVal(s[2 * i - 1]) * 16 + HexVal(s[2 * i])
            /\ ~res.ok => res.err = "None"

\* a string of the right length with uppercase digits was decoded
UppercaseHexDecoded ==
    /\ phase = "hexed" /\ res.ok
    /\ x = PublicKeySize /\ HasUpper(s)
    /\ \E i \in DOMAIN s : s[i] = "a"

\* C25: For each of Hash, TxHash, PublicKey and Signature the serde string
\* form agrees with the text form: serialize emits exactly the string that
\* Display / to_stackstr produces, and deserialize accepts a string exactly
\* when from_str accepts it and yields the same value.
SerdeAgreesWithText ==
    /\ phase = "json" => s = to_stackstr(kind, x)
    /\ phase = "read" =>
          /\ res.ok <=> from_str(kind, s).ok
          /\ res.ok => res.val = from_str(kind, s).val

\* the serialized string of a Signature was deserialized to the Signature
SignatureThroughSerde ==
    /\ phase = "read" /\ kind = "Signature"
    /\ s = Signature_to_stackstr(x)
    /\ res.ok /\ res.val = x

=============================================================================
